---- MODULE Spec2Model ----
(***************************************************************************)
(* PostgreSQL schema migrations as Pulumi dynamic resources (src/index.ts). *)
(* The sql/ directory, the host's state file and the in-flight provider     *)
(* calls are the state; discovery, the dependency chain and the provider's  *)
(* create / diff / update / delete / read are translated from the source.   *)
(***************************************************************************)
EXTENDS Integers, Sequences, FiniteSets, TLC

VARIABLES files, records, phase, plan, step, inflight, clock, edits, last

vars == <<files, records, phase, plan, step, inflight, clock, edits, last>>

(***************************************************************************)
(* Bounds of the model.                                                     *)
(***************************************************************************)
\* how many times the sql/ directory is edited between passes
MaxEdits == 2
\* how many creates succeed (each reads Date.now() once)
MaxClock == 3

\* version digit strings: "2" and "10" (numeric order differs from lexical)
Versions == {<<"2">>, <<"1", "0">>}
\* descriptions: "a" and "b_c"
Descriptions == {<<"a">>, <<"b", "_", "c">>}
\* script texts written to up files and to down files
UpTexts == {"A", "B"}
DownTexts == {"", "A"}
\* V2__a takes every text; V10__a and V2__b_c take one up text and one down text
UpTextsOf(k) ==
  IF k.version = <<"2">> /\ k.description = <<"a">> THEN UpTexts
  ELSE IF k.description = <<"a">> THEN {"A"} ELSE {"B"}
DownTextsOf(k) ==
  IF k.version = <<"2">> /\ k.description = <<"a">> THEN DownTexts ELSE {"A"}

(***************************************************************************)
(* Values.                                                                  *)
(***************************************************************************)
\* JavaScript undefined, for an optional string
Undefined == "undefined"
\* a file that is not in the directory
NoFile == "nofile"
\* config.require("database")
Database == "db"

\* the migrations the user may write: V2__a, V10__a and V2__b_c
Keys == {k \in [version : Versions, description : Descriptions] :
           k.version = <<"2">> \/ k.description = <<"a">>}
Directions == {"up", "down"}
FileUniverse == {f \in [version : Versions, description : Descriptions,
                        direction : Directions] :
                   [version |-> f.version, description |-> f.description] \in Keys}

\* UTF-16 code units of the characters file names are made of
Code(c) ==
  CASE c = "-" -> 45 [] c = "." -> 46
    [] c = "0" -> 48 [] c = "1" -> 49 [] c = "2" -> 50 [] c = "3" -> 51
    [] c = "4" -> 52 [] c = "5" -> 53 [] c = "6" -> 54 [] c = "7" -> 55
    [] c = "8" -> 56 [] c = "9" -> 57
    [] c = "V" -> 86 [] c = "_" -> 95
    [] c = "a" -> 97 [] c = "b" -> 98 [] c = "c" -> 99 [] c = "d" -> 100
    [] c = "i" -> 105 [] c = "l" -> 108 [] c = "n" -> 110 [] c = "o" -> 111
    [] c = "p" -> 112 [] c = "q" -> 113 [] c = "s" -> 115 [] c = "t" -> 116
    [] c = "u" -> 117 [] c = "w" -> 119 [] c = "x" -> 120 [] c = "y" -> 121

DigitVal(c) == Code(c) - 48

\* the file name V{version}__{description}.{up|down}.sql, as characters
FileName(f) ==
  <<"V">> \o f.version \o <<"_", "_">> \o f.description \o <<".">>
    \o (IF f.direction = "up" THEN <<"u", "p">> ELSE <<"d", "o", "w", "n">>)
    \o <<".", "s", "q", "l">>

\* a < b by UTF-16 code units, as Array.prototype.sort() with no comparator
RECURSIVE LexLess(_, _)
LexLess(a, b) ==
  IF b = <<>> THEN FALSE
  ELSE IF a = <<>> THEN TRUE
  ELSE IF Code(Head(a)) # Code(Head(b)) THEN Code(Head(a)) < Code(Head(b))
  ELSE LexLess(Tail(a), Tail(b))

\* fs.readdirSync(dir): the present files, in an order the file system chooses
RECURSIVE SomeListing(_)
SomeListing(S) ==
  IF S = {} THEN <<>>
  ELSE LET x == CHOOSE y \in S : TRUE
       IN <<x>> \o SomeListing(S \ {x})

readdirSync(fs) == SomeListing({f \in DOMAIN fs : fs[f] # NoFile})

\* insert a name before the first name that sorts after it
RECURSIVE InsertName(_, _)
InsertName(s, f) ==
  IF s = <<>> THEN <<f>>
  ELSE IF LexLess(FileName(f), FileName(Head(s))) THEN <<f>> \o s
  ELSE <<Head(s)>> \o InsertName(Tail(s), f)

\* listing.sort(): the names in file-name order
RECURSIVE sortNames(_)
sortNames(listing) ==
  IF listing = <<>> THEN <<>>
  ELSE InsertName(sortNames(Tail(listing)), Head(listing))

readdirSorted(fs) == sortNames(readdirSync(fs))

\* the number a digit string denotes
RECURSIVE NumVal(_)
NumVal(v) ==
  IF v = <<>> THEN 0
  ELSE 10 * NumVal(SubSeq(v, 1, Len(v) - 1)) + DigitVal(v[Len(v)])

\* as localeCompareNumeric, but without the numeric option: by characters
localeCompareLexical(a, b) ==
  IF LexLess(a, b) THEN -1 ELSE IF LexLess(b, a) THEN 1 ELSE 0

\* a.localeCompare(b, undefined, {numeric: true}) on digit strings
localeCompareNumeric(a, b) ==
  IF NumVal(a) < NumVal(b) THEN -1 ELSE IF NumVal(a) > NumVal(b) THEN 1 ELSE 0

\* description.replace(/_/g, '-')
RECURSIVE replaceUnderscores(_)
replaceUnderscores(d) ==
  IF d = <<>> THEN <<>>
  ELSE <<IF Head(d) = "_" THEN "-" ELSE Head(d)>> \o replaceUnderscores(Tail(d))

\* a path that is '' or undefined (falsy) in a MigrationFile
NoPath == [version |-> <<>>, description |-> <<>>, direction |-> "none"]

KeyOf(f) == [version |-> f.version, description |-> f.description]

\* index of the map entry with this key, 0 when migrationMap.has(key) is false
MapIndex(m, key) ==
  IF \E i \in 1..Len(m) : m[i].key = key
  THEN CHOOSE i \in 1..Len(m) : m[i].key = key
  ELSE 0

\* as MapStep, but a down file also fills in the entry's upPath
MapStepDownAsUp(m, f) ==
  LET key == KeyOf(f)
      m1 == IF MapIndex(m, key) = 0
            THEN Append(m, [key |-> key, version |-> f.version,
                            name |-> replaceUnderscores(f.description),
                            upPath |-> NoPath, downPath |-> NoPath])
            ELSE m
      i == MapIndex(m1, key)
  IN IF f.direction = "up"
     THEN [m1 EXCEPT ![i].upPath = f]
     ELSE [m1 EXCEPT ![i].upPath = [f EXCEPT !.direction = "up"],
                     ![i].downPath = f]

\* one iteration of the loop over the sorted file names
MapStep(m, f) ==
  LET key == KeyOf(f)
      m1 == IF MapIndex(m, key) = 0
            THEN Append(m, [key |-> key, version |-> f.version,
                            name |-> replaceUnderscores(f.description),
                            upPath |-> NoPath, downPath |-> NoPath])
            ELSE m
      i == MapIndex(m1, key)
  IN IF f.direction = "up"
     THEN [m1 EXCEPT ![i].upPath = f]
     ELSE [m1 EXCEPT ![i].downPath = f]

RECURSIVE MapFold(_, _)
MapFold(m, names) ==
  IF names = <<>> THEN m ELSE MapFold(MapStep(m, Head(names)), Tail(names))

\* .filter(m => m.upPath)
RECURSIVE filterUpPath(_)
filterUpPath(m) ==
  IF m = <<>> THEN <<>>
  ELSE (IF Head(m).upPath # NoPath THEN <<Head(m)>> ELSE <<>>) \o filterUpPath(Tail(m))

\* insert e after every element that does not compare greater (a stable sort)
RECURSIVE InsertByVersion(_, _)
InsertByVersion(s, e) ==
  IF s = <<>> THEN <<e>>
  ELSE IF localeCompareNumeric(Head(s).version, e.version) > 0 THEN <<e>> \o s
  ELSE <<Head(s)>> \o InsertByVersion(Tail(s), e)

RECURSIVE sortByVersion(_)
sortByVersion(m) ==
  IF m = <<>> THEN <<>>
  ELSE InsertByVersion(sortByVersion(SubSeq(m, 1, Len(m) - 1)), m[Len(m)])

\* loadMigrationFiles from the names readdirSync returned: the catalog
catalogOf(listing) ==
  sortByVersion(filterUpPath(MapFold(<<>>, sortNames(listing))))

\* FileMigrationManager.loadMigrationFiles: the catalog of a directory
loadMigrationFiles(fs) == catalogOf(readdirSync(fs))


(***************************************************************************)
(* The provider (src/index.ts:8-133).                                       *)
(***************************************************************************)
\* crypto.createHash('sha256').update(t).digest('hex'): one digest per text
Sha256(t) == "sha256:" \o t

\* JavaScript truthiness of an optional string: undefined and '' are falsy
Truthy(s) == s # Undefined /\ s # ""

\* as withPgClient, but sends the script again when the query fails
withPgClientRetrying(connOk, queryOk, script) ==
  [ok |-> connOk /\ queryOk,
   execs |-> IF ~connOk THEN <<>>
             ELSE IF queryOk THEN <<script>> ELSE <<script, script>>,
   calls |-> IF ~connOk THEN <<"connect failed", "end">>
             ELSE IF queryOk THEN <<"connect ok", "query ok", "end">>
             ELSE <<"connect ok", "query failed", "query failed", "end">>,
   connects |-> 1,
   ends |-> 1]

\* as withPgClient, but without the finally: end is called after the callback
\* returned and not when connect or the callback threw
withPgClientNoFinally(connOk, queryOk, script) ==
  [ok |-> connOk /\ queryOk,
   execs |-> IF connOk THEN <<script>> ELSE <<>>,
   calls |-> IF ~connOk THEN <<"connect failed">>
             ELSE IF queryOk THEN <<"connect ok", "query ok", "end">>
             ELSE <<"connect ok", "query failed">>,
   connects |-> 1,
   ends |-> IF connOk /\ queryOk THEN 1 ELSE 0]

\* connect, run the callback (one client.query(script)), always end.
\* connOk: client.connect() resolves; queryOk: client.query() resolves.
\* calls: what was called on the client, in order, and how it settled.
withPgClient(connOk, queryOk, script) ==
  [ok |-> connOk /\ queryOk,
   execs |-> IF connOk THEN <<script>> ELSE <<>>,
   calls |-> (IF connOk THEN <<"connect ok">> ELSE <<"connect failed">>)
             \o (IF ~connOk THEN <<>>
                 ELSE IF queryOk THEN <<"query ok">> ELSE <<"query failed">>)
             \o <<"end">>,
   connects |-> 1,
   ends |-> 1]

NoId == <<>>
NoOuts == [version |-> <<>>, name |-> <<>>, upSqlChecksum |-> Undefined,
           downSqlChecksum |-> Undefined, appliedAt |-> 0]

\* as create, but the down checksum is taken from the up script
createDownFromUp(inputs, connOk, queryOk, now) ==
  LET r == withPgClient(connOk, queryOk, inputs.upSql)
  IN IF r.ok
     THEN [threw |-> FALSE, error |-> "",
           id |-> <<inputs.database, inputs.version, now>>,
           outs |-> [version |-> inputs.version,
                     name |-> inputs.name,
                     upSqlChecksum |-> Sha256(inputs.upSql),
                     downSqlChecksum |-> IF Truthy(inputs.downSql)
                                         THEN Sha256(inputs.upSql)
                                         ELSE Undefined,
                     appliedAt |-> now],
           execs |-> r.execs, calls |-> r.calls]
     ELSE [threw |-> TRUE, error |-> "Failed to apply migration",
           id |-> NoId, outs |-> NoOuts, execs |-> r.execs, calls |-> r.calls]

\* provider.create; now is Date.now()
create(inputs, connOk, queryOk, now) ==
  LET r == withPgClient(connOk, queryOk, inputs.upSql)
  IN IF r.ok
     THEN [threw |-> FALSE, error |-> "",
           id |-> <<inputs.database, inputs.version, now>>,
           outs |-> [version |-> inputs.version,
                     name |-> inputs.name,
                     upSqlChecksum |-> Sha256(inputs.upSql),
                     downSqlChecksum |-> IF Truthy(inputs.downSql)
                                         THEN Sha256(inputs.downSql)
                                         ELSE Undefined,
                     appliedAt |-> now],
           execs |-> r.execs, calls |-> r.calls]
     ELSE [threw |-> TRUE, error |-> "Failed to apply migration",
           id |-> NoId, outs |-> NoOuts, execs |-> r.execs, calls |-> r.calls]

\* as diff, but only the down checksum is compared
diffDownOnly(id, olds, news) ==
  LET currentDownChecksum == IF Truthy(news.downSql) THEN Sha256(news.downSql)
                             ELSE Undefined
  IN IF olds.downSqlChecksum # currentDownChecksum
     THEN [threw |-> TRUE, error |-> "DOWN SQL checksum mismatch", changes |-> FALSE,
           execs |-> <<>>]
     ELSE [threw |-> FALSE, error |-> "", changes |-> FALSE, execs |-> <<>>]

\* provider.diff
diff(id, olds, news) ==
  LET currentUpChecksum == Sha256(news.upSql)
      currentDownChecksum == IF Truthy(news.downSql) THEN Sha256(news.downSql)
                             ELSE Undefined
  IN IF olds.upSqlChecksum # currentUpChecksum
     THEN [threw |-> TRUE, error |-> "UP SQL checksum mismatch", changes |-> FALSE,
           execs |-> <<>>]
     ELSE IF olds.downSqlChecksum # currentDownChecksum
     THEN [threw |-> TRUE, error |-> "DOWN SQL checksum mismatch", changes |-> FALSE,
           execs |-> <<>>]
     ELSE [threw |-> FALSE, error |-> "", changes |-> FALSE, execs |-> <<>>]

\* as update, but the new scripts are accepted and their checksums stored
updateAccepting(id, olds, news) ==
  [threw |-> FALSE, error |-> "",
   outs |-> [olds EXCEPT !.upSqlChecksum = Sha256(news.upSql),
                         !.downSqlChecksum = IF Truthy(news.downSql)
                                             THEN Sha256(news.downSql)
                                             ELSE Undefined],
   execs |-> <<>>]

\* provider.update
update(id, olds, news) ==
  [threw |-> TRUE, error |-> "cannot be updated", outs |-> olds, execs |-> <<>>]

\* migrationFiles.find(m => m.version === props.version): index, 0 for undefined
findByVersion(migrationFiles, version) ==
  IF \E i \in 1..Len(migrationFiles) : migrationFiles[i].version = version
  THEN CHOOSE i \in 1..Len(migrationFiles) :
         /\ migrationFiles[i].version = version
         /\ \A j \in 1..(i - 1) : migrationFiles[j].version # version
  ELSE 0

\* as deleteDownPath, but any down file of the version is taken from the directory
deleteDownPathAnyFile(props, fs) ==
  LET S == {f \in FileUniverse :
              f.version = props.version /\ f.direction = "down" /\ fs[f] # NoFile}
  IN IF S = {} THEN NoPath ELSE CHOOSE f \in S : TRUE

\* the down path delete resolves for props, NoPath when it skips the rollback
deleteDownPath(props, fs) ==
  LET migrationFiles == loadMigrationFiles(fs)
      i == findByVersion(migrationFiles, props.version)
  IN IF i = 0 THEN NoPath
     ELSE IF migrationFiles[i].downPath = NoPath THEN NoPath
     ELSE IF fs[migrationFiles[i].downPath] = NoFile THEN NoPath
     ELSE migrationFiles[i].downPath

\* provider.delete, over the directory as it is when delete runs
delete(id, props, fs, connOk, queryOk) ==
  LET downPath == deleteDownPath(props, fs)
  IN IF downPath = NoPath
     THEN [threw |-> FALSE, warned |-> TRUE, execs |-> <<>>, calls |-> <<>>]
     ELSE LET r == withPgClient(connOk, queryOk, fs[downPath])
          IN [threw |-> ~r.ok, warned |-> FALSE, execs |-> r.execs, calls |-> r.calls]

\* as read, but the checksums come back as the constructor's placeholders
readPlaceholders(id, props) ==
  [id |-> id, props |-> [props EXCEPT !.upSqlChecksum = "", !.downSqlChecksum = ""]]

\* as read, but the identity is not handed back
readNoId(id, props) == [id |-> NoId, props |-> props]

\* provider.read
read(id, props) == [id |-> id, props |-> props]

(***************************************************************************)
(* The program (src/index.ts:210-252).                                      *)
(***************************************************************************)
\* as dependsOn, but no edge is declared
dependsOnNothing(i) == {}

\* dependsOn: previousMigration ? [previousMigration] : [], as catalog indices
dependsOn(i) == IF i > 1 THEN {i - 1} ELSE {}

\* FileMigrationManager.createMigrationResources: one declaration per entry
createMigrationResources(migrationFiles, fs) ==
  [i \in 1..Len(migrationFiles) |->
     LET m == migrationFiles[i]
     IN [rn |-> KeyOf(m.upPath),
         args |-> [version |-> m.version,
                   name |-> m.name,
                   upSql |-> fs[m.upPath],
                   downSql |-> IF m.downPath # NoPath THEN fs[m.downPath] ELSE Undefined,
                   database |-> Database],
         dependsOn |-> dependsOn(i)]]

(***************************************************************************)
(* The host: an engine that runs the program, keeps one state entry per     *)
(* resource name and calls the provider, never starting an operation on a   *)
(* resource before the resources it depends on are done.                    *)
(***************************************************************************)
NoKey == [version |-> <<>>, description |-> <<>>]
NoArgs == [version |-> <<>>, name |-> <<>>, upSql |-> Undefined, downSql |-> Undefined,
           database |-> Database]

\* the last provider call that returned: what it was given and what it did
NoOp == [op |-> "none", rn |-> NoKey, args |-> NoArgs, olds |-> NoOuts,
         threw |-> FALSE, error |-> "", changes |-> FALSE, warned |-> FALSE,
         execs |-> <<>>, calls |-> <<>>]

NoRecords == [k \in {} |-> NoOuts]

Without(recs, rn) == [k \in (DOMAIN recs) \ {rn} |-> recs[k]]

With(recs, rn, e) == [k \in (DOMAIN recs) \cup {rn} |-> IF k = rn THEN e ELSE recs[k]]

Init ==
  /\ files = [f \in FileUniverse |-> NoFile]
  /\ records = NoRecords
  /\ phase = "idle"
  /\ plan = <<>>
  /\ step = <<>>
  /\ inflight = {}
  /\ clock = 0
  /\ edits = 0
  /\ last = NoOp

\* the user writes, replaces or removes the two files of one migration
EditMigration(k, up, down) ==
  /\ phase = "idle"
  /\ edits < MaxEdits
  /\ files' = [f \in FileUniverse |->
                 IF KeyOf(f) = k
                 THEN (IF f.direction = "up" THEN up ELSE down)
                 ELSE files[f]]
  /\ files' # files
  /\ edits' = edits + 1
  /\ last' = NoOp
  /\ UNCHANGED <<records, phase, plan, step, inflight, clock>>

\* the program runs (src/index.ts:251-252) on the names readdirSync returned
\* and declares its resources
RunProgram(listing) ==
  /\ phase = "idle"
  /\ phase' = "up"
  /\ LET decl == createMigrationResources(catalogOf(listing), files)
     IN /\ plan' = decl
        /\ step' = [i \in 1..Len(decl) |-> "pending"]
  /\ last' = NoOp
  /\ UNCHANGED <<files, records, inflight, clock, edits>>

\* pulumi up
PulumiUp == RunProgram(readdirSync(files))

\* pulumi destroy: no program runs, every state entry is to be deleted
PulumiDestroy ==
  /\ phase = "idle"
  /\ records # NoRecords
  /\ phase' = "destroy"
  /\ plan' = <<>>
  /\ step' = <<>>
  /\ last' = NoOp
  /\ UNCHANGED <<files, records, inflight, clock, edits>>

\* the declaration just before i in the catalog, if any
PrevOf(i) == IF i > 1 THEN {plan[i - 1].rn} ELSE {}

\* every resource declaration i depends on is done
Ready(i) == \A d \in plan[i].dependsOn : step[d] = "done"

DepsOf(i) == {plan[d].rn : d \in plan[i].dependsOn}

\* the host calls create for a declaration that has no state entry
CreateInvoke(i, connOk) ==
  /\ phase = "up"
  /\ i \in DOMAIN plan
  /\ step[i] = "pending"
  /\ Ready(i)
  /\ plan[i].rn \notin DOMAIN records
  /\ clock < MaxClock
  /\ IF connOk
     THEN /\ inflight' = inflight \cup {[op |-> "create", rn |-> plan[i].rn, i |-> i,
                                          script |-> plan[i].args.upSql]}
          /\ step' = [step EXCEPT ![i] = "running"]
          /\ UNCHANGED <<phase, last>>
     ELSE LET r == create(plan[i].args, FALSE, FALSE, clock)
          IN /\ step' = [step EXCEPT ![i] = IF r.threw THEN "failed" ELSE "done"]
             /\ phase' = IF r.threw THEN "failed" ELSE phase
             /\ last' = [NoOp EXCEPT !.op = "create", !.rn = plan[i].rn,
                                      !.args = plan[i].args, !.threw = r.threw,
                                      !.error = r.error, !.execs = r.execs,
                                      !.calls = r.calls]
             /\ UNCHANGED inflight
  /\ UNCHANGED <<files, records, plan, clock, edits>>

\* the up script's query settles and create returns or throws
CreateReturn(c, queryOk) ==
  /\ c \in inflight
  /\ c.op = "create"
  /\ LET r == create(plan[c.i].args, TRUE, queryOk, clock)
     IN /\ inflight' = inflight \ {c}
        /\ last' = [NoOp EXCEPT !.op = "create", !.rn = c.rn, !.args = plan[c.i].args,
                                 !.threw = r.threw, !.error = r.error,
                                 !.execs = r.execs, !.calls = r.calls]
        /\ IF r.threw
           THEN /\ step' = [step EXCEPT ![c.i] = "failed"]
                /\ phase' = "failed"
                /\ UNCHANGED <<records, clock>>
           ELSE /\ step' = [step EXCEPT ![c.i] = "done"]
                /\ records' = With(records, c.rn,
                                   [id |-> r.id, outs |-> r.outs,
                                    createInputs |-> plan[c.i].args,
                                    deps |-> DepsOf(c.i),
                                    prev |-> PrevOf(c.i)])
                /\ clock' = clock + 1
                /\ UNCHANGED phase
  /\ UNCHANGED <<files, plan, edits>>

\* the host calls diff for a declaration that has a state entry
Diff(i) ==
  /\ phase = "up"
  /\ i \in DOMAIN plan
  /\ step[i] = "pending"
  /\ Ready(i)
  /\ plan[i].rn \in DOMAIN records
  /\ LET e == records[plan[i].rn]
         r == diff(e.id, e.outs, plan[i].args)
     IN /\ last' = [NoOp EXCEPT !.op = "diff", !.rn = plan[i].rn, !.args = plan[i].args,
                                 !.olds = e.outs, !.threw = r.threw, !.error = r.error,
                                 !.changes = r.changes, !.execs = r.execs]
        /\ IF r.threw
           THEN /\ step' = [step EXCEPT ![i] = "failed"]
                /\ phase' = "failed"
                /\ UNCHANGED records
           ELSE /\ step' = [step EXCEPT ![i] = "done"]
                /\ records' = [records EXCEPT ![plan[i].rn].deps = DepsOf(i),
                                               ![plan[i].rn].prev = PrevOf(i)]
                /\ UNCHANGED phase
  /\ UNCHANGED <<files, plan, inflight, clock, edits>>

\* a host calls update for a declaration that has a state entry
Update(i) ==
  /\ phase = "up"
  /\ i \in DOMAIN plan
  /\ step[i] = "pending"
  /\ Ready(i)
  /\ plan[i].rn \in DOMAIN records
  /\ LET e == records[plan[i].rn]
         r == update(e.id, e.outs, plan[i].args)
     IN /\ last' = [NoOp EXCEPT !.op = "update", !.rn = plan[i].rn,
                                 !.args = plan[i].args, !.olds = e.outs,
                                 !.threw = r.threw, !.error = r.error,
                                 !.execs = r.execs]
        /\ IF r.threw
           THEN /\ step' = [step EXCEPT ![i] = "failed"]
                /\ phase' = "failed"
                /\ UNCHANGED records
           ELSE /\ step' = [step EXCEPT ![i] = "done"]
                /\ records' = [records EXCEPT ![plan[i].rn].outs = r.outs]
                /\ UNCHANGED phase
  /\ UNCHANGED <<files, plan, inflight, clock, edits>>

\* pulumi refresh: the host calls read for a state entry and stores the result
Read(rn) ==
  /\ phase = "idle"
  /\ rn \in DOMAIN records
  /\ LET e == records[rn]
         r == read(e.id, e.outs)
     IN /\ records' = [records EXCEPT ![rn].id = r.id, ![rn].outs = r.props]
        /\ last' = [NoOp EXCEPT !.op = "read", !.rn = rn, !.olds = e.outs]
  /\ UNCHANGED <<files, phase, plan, step, inflight, clock, edits>>

\* rn's state entry is due for deletion and nothing left in the state depends on it
CanDelete(rn) ==
  /\ rn \in DOMAIN records
  /\ \A c \in inflight : c.rn # rn
  /\ \/ phase = "destroy"
     \/ /\ phase = "up"
        /\ \A i \in DOMAIN plan : step[i] = "done" /\ plan[i].rn # rn
  /\ \A other \in (DOMAIN records) \ {rn} : rn \notin records[other].deps

DeleteDone(rn, e, r) ==
  /\ last' = [NoOp EXCEPT !.op = "delete", !.rn = rn, !.olds = e.outs,
                           !.threw = r.threw, !.warned = r.warned, !.execs = r.execs,
                           !.calls = r.calls]
  /\ IF r.threw
     THEN /\ phase' = "failed"
          /\ UNCHANGED records
     ELSE /\ records' = Without(records, rn)
          /\ UNCHANGED phase

\* the host calls delete for a state entry
DeleteInvoke(rn, connOk) ==
  /\ CanDelete(rn)
  /\ LET e == records[rn]
         r == delete(e.id, e.outs, files, connOk, TRUE)
     IN IF r.execs = <<>>
        THEN /\ DeleteDone(rn, e, r)
             /\ UNCHANGED inflight
        ELSE /\ inflight' = inflight \cup {[op |-> "delete", rn |-> rn, i |-> 0,
                                             script |-> r.execs[1]]}
             /\ UNCHANGED <<records, phase, last>>
  /\ UNCHANGED <<files, plan, step, clock, edits>>

\* the down script's query settles and delete returns or throws
DeleteReturn(c, queryOk) ==
  /\ c \in inflight
  /\ c.op = "delete"
  /\ LET e == records[c.rn]
         r == delete(e.id, e.outs, files, TRUE, queryOk)
     IN DeleteDone(c.rn, e, r)
  /\ inflight' = inflight \ {c}
  /\ UNCHANGED <<files, plan, step, clock, edits>>

\* the pass ends: all done, stopped by a failure, or cancelled by the user
EndPass ==
  /\ phase # "idle"
  /\ inflight = {}
  /\ phase' = "idle"
  /\ plan' = <<>>
  /\ step' = <<>>
  /\ last' = NoOp
  /\ UNCHANGED <<files, records, inflight, clock, edits>>

Next ==
  \/ \E k \in Keys :
       \E up \in UpTextsOf(k) \cup {NoFile}, down \in DownTextsOf(k) \cup {NoFile} :
         EditMigration(k, up, down)
  \/ PulumiUp
  \/ PulumiDestroy
  \/ \E i \in DOMAIN plan, connOk \in BOOLEAN : CreateInvoke(i, connOk)
  \/ \E c \in inflight, queryOk \in BOOLEAN : CreateReturn(c, queryOk)
  \/ \E i \in DOMAIN plan : Diff(i)
  \/ \E i \in DOMAIN plan : Update(i)
  \/ \E rn \in DOMAIN records : Read(rn)
  \/ \E rn \in DOMAIN records, connOk \in BOOLEAN : DeleteInvoke(rn, connOk)
  \/ \E c \in inflight, queryOk \in BOOLEAN : DeleteReturn(c, queryOk)
  \/ EndPass

Spec == Init /\ [][Next]_vars

(***************************************************************************)
(* Discovery alone: any directory of at most MaxListed files out of a wider *)
(* set of names, listed by readdirSync in any order, and one program run.   *)
(***************************************************************************)
\* how many files the directory holds
MaxListed == 5

\* V001__init, V002__y, V003__x, V2__a and V10__a
DiscoveryKeys ==
  {[version |-> <<"0", "0", "1">>, description |-> <<"i", "n", "i", "t">>],
   [version |-> <<"0", "0", "2">>, description |-> <<"y">>],
   [version |-> <<"0", "0", "3">>, description |-> <<"x">>],
   [version |-> <<"2">>, description |-> <<"a">>],
   [version |-> <<"1", "0">>, description |-> <<"a">>]}

DiscoveryUniverse ==
  {[version |-> k.version, description |-> k.description, direction |-> d] :
     k \in DiscoveryKeys, d \in Directions}

Present(fs) == {f \in DOMAIN fs : fs[f] # NoFile}

\* every order in which the names of S can be listed
RECURSIVE Listings(_)
Listings(S) ==
  IF S = {} THEN {<<>>}
  ELSE UNION {{<<x>> \o l : l \in Listings(S \ {x})} : x \in S}

InitDiscovery ==
  /\ files \in {fs \in [DiscoveryUniverse -> {"A", NoFile}] :
                  Cardinality(Present(fs)) <= MaxListed}
  /\ records = NoRecords
  /\ phase = "idle"
  /\ plan = <<>>
  /\ step = <<>>
  /\ inflight = {}
  /\ clock = 0
  /\ edits = 0
  /\ last = NoOp

NextDiscovery == \E listing \in Listings(Present(files)) : RunProgram(listing)

SpecDiscovery == InitDiscovery /\ [][NextDiscovery]_vars

(***************************************************************************)
(* Properties.                                                              *)
(***************************************************************************)
CreatesInFlight == {c \in inflight : c.op = "create"}

\* the up file and the down file of migration k
UpFile(k) == [version |-> k.version, description |-> k.description, direction |-> "up"]
DownFile(k) == [version |-> k.version, description |-> k.description,
                direction |-> "down"]

\* some catalog entry of version v (a migration with an up file) has a down file
VersionHasDown(v) ==
  \E k \in Keys : /\ k.version = v
                  /\ files[UpFile(k)] # NoFile
                  /\ files[DownFile(k)] # NoFile

\* C1: while the up script of catalog entry j executes, every earlier entry is
\* done and Applied; at most one up script executes at a time; and once an
\* entry has failed, no later entry has been started in that pass.
C1_ChainSerializesCreates ==
  /\ \A c \in CreatesInFlight :
       \A i \in 1..(c.i - 1) : step[i] = "done" /\ plan[i].rn \in DOMAIN records
  /\ Cardinality(CreatesInFlight) <= 1
  /\ \A i \in DOMAIN plan :
       step[i] = "failed" => \A j \in (i + 1)..Len(plan) : step[j] = "pending"

\* the up script of the second of at least two entries executes
C1_Witness ==
  /\ Len(plan) >= 2
  /\ \E c \in CreatesInFlight : c.i = 2

\* C2: no up script executes for a version numerically lower than the version
\* of a record that is Applied.
C2_NeverBelowAppliedVersion ==
  \A c \in CreatesInFlight :
    \A rn \in DOMAIN records :
      NumVal(records[rn].outs.version) <= NumVal(plan[c.i].args.version)

\* C3: a record keeps its upChecksum and downChecksum for as long as it keeps
\* its identity, whatever diff, update and read are given.
C3_ChecksumsNeverChange ==
  [][\A rn \in (DOMAIN records) \cap (DOMAIN records') :
       records'[rn].id = records[rn].id =>
         /\ records'[rn].outs.upSqlChecksum = records[rn].outs.upSqlChecksum
         /\ records'[rn].outs.downSqlChecksum = records[rn].outs.downSqlChecksum]_vars

\* a diff given a changed down script has thrown and the record is still there
C3_Witness ==
  /\ last.op = "diff"
  /\ last.threw
  /\ last.rn \in DOMAIN records
  /\ last.args.downSql # records[last.rn].createInputs.downSql

\* C4: diff throws whenever the proposed up script or the proposed down script
\* (its text, or its being there at all) differs from what create recorded.
C4_DiffRejectsEveryDrift ==
  (/\ last.op = "diff"
   /\ \/ last.args.upSql # records[last.rn].createInputs.upSql
      \/ last.args.downSql # records[last.rn].createInputs.downSql)
  => last.threw

C6_DiffUnmodifiedNoChanges ==
  (/\ last.op = "diff"
   /\ last.args.upSql = records[last.rn].createInputs.upSql
   /\ last.args.downSql = records[last.rn].createInputs.downSql)
  => /\ ~last.threw
     /\ ~last.changes
     /\ last.execs = <<>>
     /\ records[last.rn].outs = last.olds

\* a diff has passed on a record with an up script and a different down script
C6_Witness ==
  /\ last.op = "diff"
  /\ ~last.threw
  /\ last.args.upSql = "B"
  /\ last.args.downSql = "A"
  /\ last.args = records[last.rn].createInputs

\* C7: update throws, executes nothing and leaves the record Applied and as it was.
C7_UpdateAlwaysFails ==
  last.op = "update"
  => /\ last.threw
     /\ last.execs = <<>>
     /\ last.rn \in DOMAIN records
     /\ records[last.rn].outs = last.olds

\* update was called with an up script other than the one applied
C7_Witness ==
  /\ last.op = "update"
  /\ last.rn \in DOMAIN records
  /\ last.args.upSql # records[last.rn].createInputs.upSql

\* C8: a create executes its up script at most once; when it throws, no record
\* is stored for the resource and the pass is stopped with the error.
C8_FailedCreateStoresNothing ==
  last.op = "create"
  => /\ Len(last.execs) <= 1
     /\ \A n \in DOMAIN last.execs : last.execs[n] = last.args.upSql
     /\ last.threw => /\ last.rn \notin DOMAIN records
                      /\ last.error = "Failed to apply migration"
                      /\ phase = "failed"

\* a create has thrown after its up script was sent and failed
C8_Witness ==
  /\ last.op = "create"
  /\ last.threw
  /\ Len(last.execs) = 1

\* C9: delete on a record whose version has no down script in the catalog
\* returns without error, sends nothing to the store and the record is removed.
C9_DeleteWithoutDownIsNoOp ==
  /\ (last.op = "delete" /\ ~VersionHasDown(last.olds.version))
       => /\ ~last.threw
          /\ last.execs = <<>>
          /\ last.rn \notin DOMAIN records
  /\ \A c \in inflight :
       c.op = "delete" => VersionHasDown(records[c.rn].outs.version)

\* a delete has skipped the rollback of a version the catalog has no down script for
C9_Witness ==
  /\ last.op = "delete"
  /\ ~VersionHasDown(last.olds.version)
  /\ last.warned
  /\ last.rn \notin DOMAIN records

\* C10: delete on a record whose migration has a down script in the catalog
\* (so that its version has one) executes a down script once; the record is
\* removed when delete returns and stays when delete throws.
C10_DeleteRunsDownOnce ==
  (/\ last.op = "delete"
   /\ files[UpFile(last.rn)] # NoFile
   /\ files[DownFile(last.rn)] # NoFile)
  => /\ Len(last.execs) <= 1
     /\ ~last.threw => (Len(last.execs) = 1 /\ last.rn \notin DOMAIN records)
     /\ last.threw => last.rn \in DOMAIN records

Shown(d) == [version |-> d.args.version, name |-> d.args.name,
             hasDown |-> d.args.downSql # Undefined, dependsOn |-> d.dependsOn]

ExampleFiles ==
  {f \in DiscoveryUniverse :
     \/ f.version \in {<<"0", "0", "1">>, <<"0", "0", "2">>}
     \/ f.version = <<"0", "0", "3">> /\ f.direction = "up"}

\* C12: whatever the order of the listing, the catalog holds one entry per
\* migration that has an up file, ascending by numeric version, each entry
\* after the first with one edge to the entry just before it; and the files
\* V001__init up+down, V002__y up+down, V003__x up give
\* [001(init, down), 002(y, down), 003(x, no down)] with edges 001 -> 002 -> 003.
C12_CatalogSortedAndChained ==
  phase = "up" =>
    /\ \A i, j \in DOMAIN plan :
         i < j => NumVal(plan[i].args.version) <= NumVal(plan[j].args.version)
    /\ \A i \in DOMAIN plan : plan[i].dependsOn = (IF i = 1 THEN {} ELSE {i - 1})
    /\ {plan[i].rn : i \in DOMAIN plan}
         = {KeyOf(f) : f \in {g \in Present(files) : g.direction = "up"}}
    /\ \A i, j \in DOMAIN plan : plan[i].rn = plan[j].rn => i = j
    /\ \A i \in DOMAIN plan :
         /\ plan[i].args.version = plan[i].rn.version
         /\ Shown(plan[i]).hasDown = (files[DownFile(plan[i].rn)] # NoFile)
    /\ Present(files) = ExampleFiles =>
         [i \in DOMAIN plan |-> Shown(plan[i])]
           = << [version |-> <<"0", "0", "1">>, name |-> <<"i", "n", "i", "t">>,
                 hasDown |-> TRUE, dependsOn |-> {}],
                [version |-> <<"0", "0", "2">>, name |-> <<"y">>,
                 hasDown |-> TRUE, dependsOn |-> {1}],
                [version |-> <<"0", "0", "3">>, name |-> <<"x">>,
                 hasDown |-> FALSE, dependsOn |-> {2}] >>

\* the program has run on V2__a and V10__a together with V001__init
C12_Witness ==
  /\ phase = "up"
  /\ Len(plan) = 3
  /\ plan[1].args.version = <<"0", "0", "1">>
  /\ plan[2].args.version = <<"2">>
  /\ plan[3].args.version = <<"1", "0">>

\* C13: no two catalog entries carry the same version, and the state never
\* holds two records for the same version.
C13_VersionUnique ==
  /\ \A i, j \in DOMAIN plan :
       plan[i].args.version = plan[j].args.version => i = j
  /\ \A r, q \in DOMAIN records : r.version = q.version => r = q

\* the migrations of which the directory holds a down file and no up file
DownOnly == {k \in Keys : files[DownFile(k)] # NoFile /\ files[UpFile(k)] = NoFile}

\* C14: every declared resource has its up file in the directory, edges run
\* between declared resources only, and a create is invoked only for a
\* migration whose up file is there; a down-only group gets none of these.
C14_EveryEntryHasUp ==
  /\ \A i \in DOMAIN plan :
       /\ plan[i].rn \notin DownOnly
       /\ files[UpFile(plan[i].rn)] # NoFile
       /\ plan[i].args.upSql = files[UpFile(plan[i].rn)]
       /\ plan[i].dependsOn \subseteq DOMAIN plan
  /\ \A c \in inflight : c.op = "create" => c.rn \notin DownOnly
  /\ last.op = "create" => last.rn \notin DownOnly

C14_Witness ==
  /\ DownOnly # {}
  /\ phase = "up"
  /\ last.op = "create"
  /\ plan # <<>>

\* the client is connected after these calls: connect resolved, no end since
Open(calls) ==
  \E i \in DOMAIN calls :
    /\ calls[i] = "connect ok"
    /\ \A j \in DOMAIN calls : j > i => calls[j] # "end"

\* the positions of the client.query calls
Queries(calls) == {i \in DOMAIN calls : calls[i] \in {"query ok", "query failed"}}

\* C15: when create or delete has returned or thrown, the client it
\* connected has been ended, whether the script ran, failed, or the connection
\* was refused; and it sent at most one script, between connect and end.
C15_ConnectionReleased ==
  last.op \in {"create", "delete"} =>
    /\ ~Open(last.calls)
    /\ last.calls # <<>> => last.calls[Len(last.calls)] = "end"
    /\ Cardinality(Queries(last.calls)) <= 1
    /\ Cardinality(Queries(last.calls)) = Len(last.execs)
    /\ \A q \in Queries(last.calls) :
         /\ \E i \in DOMAIN last.calls : i < q /\ last.calls[i] = "connect ok"
         /\ \A i \in DOMAIN last.calls : i < q => last.calls[i] # "end"

\* a delete has thrown because its down script failed
C15_Witness ==
  /\ last.op = "delete"
  /\ last.threw
  /\ last.calls = <<"connect ok", "query failed", "end">>

\* C16: a read hands back the identity and the record it was given: the
\* state entry it is stored into is unchanged, nothing is sent to the
\* database, no file changes and nothing is thrown.
C16_ReadIsPassthrough ==
  [][last'.op = "read" =>
       /\ records' = records
       /\ files' = files
       /\ last'.execs = <<>>
       /\ last'.calls = <<>>
       /\ ~last'.threw]_vars

\* a record that has a down checksum has been read
C16_Witness ==
  /\ last.op = "read"
  /\ last.rn \in DOMAIN records
  /\ records[last.rn].outs = last.olds
  /\ last.olds.downSqlChecksum # Undefined

\* C17: the script a delete sends to the database is the down script whose
\* checksum create recorded for that record (looked at where the file is the
\* record's own and create was not given an empty down script).
C17_DeleteRunsRecordedDown ==
  \A c \in inflight :
    (/\ c.op = "delete"
     /\ records[c.rn].createInputs.downSql # ""
     /\ deleteDownPath(records[c.rn].outs, files) = DownFile(c.rn))
    => /\ records[c.rn].outs.downSqlChecksum # Undefined
       /\ Sha256(c.script) = records[c.rn].outs.downSqlChecksum

\* C18: a delete resolves the down file of the record's own migration; it
\* sends no other migration's down script, and when the record's own up and
\* down files are there it resolves that down file and not the warning.
C18_DeleteUsesOwnDown ==
  /\ \A c \in inflight :
       c.op = "delete" => deleteDownPath(records[c.rn].outs, files) = DownFile(c.rn)
  /\ \A rn \in DOMAIN records :
       (files[UpFile(rn)] # NoFile /\ files[DownFile(rn)] # NoFile)
         => deleteDownPath(records[rn].outs, files) = DownFile(rn)

====
